---- MODULE Spec2Model ----
(***************************************************************************)
(* Activity Index (Bai et al. 2016) as implemented in ActivityIndex.ipynb: *)
(* getNoiseValue, getActivityIndex and getSignalActivityIndex.             *)
(*                                                                         *)
(* Numbers are binary floating-point values with a MantBits-bit            *)
(* significand and no exponent limit, every operation rounded to nearest,  *)
(* ties to even (IEEE 754 with a shorter significand):                     *)
(*   k = "fin": the rational n/d (d > 0, lowest terms);                    *)
(*   k = "inf", "ninf", "nan": the IEEE specials.                          *)
(* A call ends in an outcome: kind "return" (val, count) or "raise" (exc). *)
(***************************************************************************)
EXTENDS Integers, Sequences, FiniteSets, TLC

\* ---- bounds of the model ------------------------------------------------
MaxVal == 2
MaxLen == 5
MaxRef == 5
MaxFreq == 2
MaxNoise == 1
MantBits == 4

\* ---- floating-point values ----------------------------------------------
Abs(x) == IF x < 0 THEN -x ELSE x

Min(a, b) == IF a < b THEN a ELSE b

RECURSIVE GCD(_, _)
GCD(a, b) == IF b = 0 THEN a ELSE GCD(b, a % b)

RECURSIVE Pow2(_)
Pow2(e) == IF e = 0 THEN 1 ELSE 2 * Pow2(e - 1)

TwoP == Pow2(MantBits)
HalfP == Pow2(MantBits - 1)

Fin(n, d) ==
  LET g == GCD(Abs(n), d)
  IN [k |-> "fin", n |-> n \div g, d |-> d \div g]

Zero == Fin(0, 1)
NaN == [k |-> "nan", n |-> 0, d |-> 1]
Inf == [k |-> "inf", n |-> 0, d |-> 1]
NInf == [k |-> "ninf", n |-> 0, d |-> 1]

Neg(a) ==
  CASE a.k = "nan" -> NaN
    [] a.k = "inf" -> NInf
    [] a.k = "ninf" -> Inf
    [] OTHER -> Fin(-a.n, a.d)

\* the float nearest to (a/b)*(up/down), a, b > 0: scale a/b into
\* [2^(MantBits-1), 2^MantBits), round to an integer, ties to even
RECURSIVE RndPos(_, _, _, _)
RndPos(a, b, up, down) ==
  IF a >= TwoP * b THEN RndPos(a, 2 * b, 2 * up, down)
  ELSE IF a < HalfP * b THEN RndPos(2 * a, b, up, 2 * down)
  ELSE LET m == a \div b
           rem == a - m * b
           m2 == IF 2 * rem > b \/ (2 * rem = b /\ m % 2 = 1) THEN m + 1 ELSE m
       IN Fin(m2 * up, down)

Round(n, d) ==
  IF n = 0 THEN Zero
  ELSE IF n > 0 THEN RndPos(n, d, 1, 1)
  ELSE Neg(RndPos(-n, d, 1, 1))

\* sign of a float: -1, 0, 1 (nan has none; callers exclude it)
Sign(a) ==
  CASE a.k = "inf" -> 1
    [] a.k = "ninf" -> -1
    [] a.k = "fin" /\ a.n > 0 -> 1
    [] a.k = "fin" /\ a.n = 0 -> 0
    [] OTHER -> -1

\* float +: nan is absorbing, inf + ninf is nan
FAdd(a, b) ==
  CASE a.k = "nan" \/ b.k = "nan" -> NaN
    [] a.k = "inf" /\ b.k = "ninf" -> NaN
    [] a.k = "ninf" /\ b.k = "inf" -> NaN
    [] a.k = "inf" \/ b.k = "inf" -> Inf
    [] a.k = "ninf" \/ b.k = "ninf" -> NInf
    [] OTHER -> Round(a.n * b.d + b.n * a.d, a.d * b.d)

FSub(a, b) == FAdd(a, Neg(b))

FMul(a, b) ==
  CASE a.k = "nan" \/ b.k = "nan" -> NaN
    [] a.k # "fin" /\ Sign(b) = 0 -> NaN
    [] b.k # "fin" /\ Sign(a) = 0 -> NaN
    [] a.k # "fin" \/ b.k # "fin" -> IF Sign(a) * Sign(b) > 0 THEN Inf ELSE NInf
    [] OTHER -> Round(a.n * b.n, a.d * b.d)

\* float / with numpy's floating-point errors not trapped: x/0 is +-inf,
\* 0/0 is nan
FDiv(a, b) ==
  CASE a.k = "nan" \/ b.k = "nan" -> NaN
    [] a.k # "fin" /\ b.k # "fin" -> NaN
    [] a.k # "fin" -> IF Sign(b) < 0 THEN Neg(a) ELSE a
    [] b.k # "fin" -> Zero
    [] b.n = 0 -> IF a.n = 0 THEN NaN ELSE IF a.n > 0 THEN Inf ELSE NInf
    [] b.n > 0 -> Round(a.n * b.d, a.d * b.n)
    [] OTHER -> Round(-(a.n * b.d), a.d * (-b.n))

\* a/b signals an IEEE exception: divide-by-zero (x/0) or invalid (0/0)
DivSignals(a, b) == a.k = "fin" /\ b.k = "fin" /\ b.n = 0

\* a > b as Python compares floats: False whenever either side is nan
FGt(a, b) ==
  /\ a.k # "nan"
  /\ b.k # "nan"
  /\ a # b
  /\ CASE a.k = "inf" -> TRUE
       [] b.k = "inf" -> FALSE
       [] b.k = "ninf" -> TRUE
       [] a.k = "ninf" -> FALSE
       [] OTHER -> a.n * b.d > b.n * a.d

\* the float nearest to sqrt(a/b)*(up/down), a, b > 0
RECURSIVE SqrtPos(_, _, _, _)
SqrtPos(a, b, up, down) ==
  IF a >= TwoP * TwoP * b THEN SqrtPos(a, 4 * b, 2 * up, down)
  ELSE IF a < HalfP * HalfP * b THEN SqrtPos(4 * a, b, up, 2 * down)
  ELSE LET s == CHOOSE t \in HalfP..(TwoP - 1) :
                  t * t * b <= a /\ (t + 1) * (t + 1) * b > a
           s2 == IF (2 * s + 1) * (2 * s + 1) * b < 4 * a THEN s + 1 ELSE s
       IN Fin(s2 * up, down)

\* ---- Python and pandas primitives the notebook calls ---------------------
\* numpy's handling of floating-point errors: process state the notebook
\* never sets ("warn" unless the caller changed it). Only a division by a
\* zero noise can trap, so "raise" is enumerated for those calls alone.
ErrStates == {"warn", "raise"}

Num(q) == Fin(q, 1)

\* a local variable that no statement has assigned yet
Unbound == [k |-> "unbound", n |-> 0, d |-> 1]

Return(v, c) == [kind |-> "return", val |-> v, count |-> c, exc |-> ""]
Raise(e) == [kind |-> "raise", val |-> Unbound, count |-> 0, exc |-> e]
NoResult == [kind |-> "none", val |-> Unbound, count |-> 0, exc |-> ""]

\* df['x'], df['y'], df['z']: column a of the frame, as floats
Col(d, a) == [j \in 1..Len(d) |-> Num(d[j][a])]

\* variant: the slice taken as df.iloc[start:end+1]
IlocInclusive(d, start, end) == SubSeq(d, start + 1, Min(end + 1, Len(d)))

\* df.iloc[start:end]: rows start..end-1, clipped to the frame
Iloc(d, start, end) == SubSeq(d, start + 1, Min(end, Len(d)))

RECURSIVE FSum(_)
FSum(c) ==
  IF c = <<>> THEN Zero
  ELSE FAdd(FSum(SubSeq(c, 1, Len(c) - 1)), c[Len(c)])

\* Series.var(): ddof = 1; the mean, the squared deviations, their sum over
\* count - 1; nan when there are not more than ddof values
VarCalc(c) ==
  IF Len(c) <= 1 THEN NaN
  ELSE LET mean == FDiv(FSum(c), Num(Len(c)))
           sqr == [j \in 1..Len(c) |->
                     FMul(FSub(mean, c[j]), FSub(mean, c[j]))]
       IN FDiv(FSum(sqr), Num(Len(c) - 1))

\* variant: abs(avg) in place of max(avg, 0)
PyMaxAbs(a, b) == IF FGt(b, a) THEN Neg(a) ELSE a

\* the columns the bounded frames have, and Series.var() tabulated on them
\* (@@ makes the table an explicit function, computed once)
Columns ==
  UNION {[1..n -> {Num(0), Num(MaxVal)}] :
           n \in 0..(IF MaxLen > MaxRef THEN MaxLen ELSE MaxRef)}

VarTable == [c \in Columns |-> VarCalc(c)] @@ <<>>

Var(c) == VarTable[c]

\* max(a, b) of the builtin: the first argument unless the second is greater
PyMax(a, b) == IF FGt(b, a) THEN b ELSE a

\* math.sqrt: ValueError below zero, nan and inf pass through
PySqrt(a) ==
  CASE a.k = "nan" -> Return(NaN, 0)
    [] a.k = "inf" -> Return(Inf, 0)
    [] a.k = "ninf" -> Raise("ValueError")
    [] a.n < 0 -> Raise("ValueError")
    [] a.n = 0 -> Return(Zero, 0)
    [] OTHER -> Return(SqrtPos(a.n, a.d, 1, 1), 0)

\* ---- the notebook's functions -------------------------------------------
\* df['x'].var() + df['y'].var() + df['z'].var()
SumVar(d) == FAdd(FAdd(Var(Col(d, 1)), Var(Col(d, 2))), Var(Col(d, 3)))

\* variant: sysnoise = 0 ahead of the two if statements
NoiseLocalDefaultZero(d, m) ==
  IF m = "bai" THEN FDiv(SumVar(d), Num(3))
  ELSE IF m = "paper" THEN SumVar(d) ELSE Zero

\* variant: the 'bai' branch without its division by 3
NoiseLocalBaiUndivided(d, m) ==
  IF m = "bai" \/ m = "paper" THEN SumVar(d) ELSE Unbound

\* sysnoise after the two if statements: no branch assigns it for a mode
\* that is neither 'paper' nor 'bai'
NoiseLocal(d, m) ==
  LET afterPaper == IF m = "paper" THEN SumVar(d) ELSE Unbound
  IN IF m = "bai" THEN FDiv(SumVar(d), Num(3)) ELSE afterPaper

\* return sysnoise: reading an unassigned local raises UnboundLocalError
getNoiseValue(d, m) ==
  LET sysnoise == NoiseLocal(d, m)
  IN IF sysnoise = Unbound THEN Raise("UnboundLocalError")
     ELSE Return(sysnoise, 0)

\* x, y, z of getActivityIndex: one axis's deviation of its variance v from
\* the noise
Dev(v, nz, rl) ==
  IF rl = FALSE THEN FSub(v, nz)
  ELSE FDiv(FSub(v, nz), nz)

\* the relative branch divides by a zero noise and numpy traps it
DevTraps(v, nz, rl, es) ==
  rl # FALSE /\ es = "raise" /\ DivSignals(FSub(v, nz), nz)

\* the body of getActivityIndex on the three variances of the window: the
\* local avg (Unbound when the function raised before assigning it) and the
\* outcome
Score(vx, vy, vz, nz, rl, es) ==
  IF DevTraps(vx, nz, rl, es) \/ DevTraps(vy, nz, rl, es)
       \/ DevTraps(vz, nz, rl, es)
  THEN [avg |-> Unbound, out |-> Raise("FloatingPointError")]
  ELSE LET x == Dev(vx, nz, rl)
           y == Dev(vy, nz, rl)
           z == Dev(vz, nz, rl)
           avg_ == FDiv(FAdd(FAdd(x, y), z), Num(3))
           max_value == PyMax(avg_, Zero)
       IN [avg |-> avg_, out |-> PySqrt(max_value)]

ActivityIndexFrame(d, nz, rl, es) ==
  Score(Var(Col(d, 1)), Var(Col(d, 2)), Var(Col(d, 3)), nz, rl, es)

getActivityIndex(d, nz, rl, es) == ActivityIndexFrame(d, nz, rl, es).out

\* variant: the window count rounded up
WindowCountCeil(n, f) == (n + f - 1) \div f

\* variant: at least one window, however short the signal
WindowCountAtLeastOne(n, f) == IF n \div f = 0 THEN 1 ELSE n \div f

\* len(df) // freq
WindowCount(n, f) == n \div f

\* variant: the call wrapped in try/except, the loop going on
PropagatesSwallowed(ai) == FALSE

\* the call in the loop is not wrapped in try/except: an exception of
\* getActivityIndex leaves getSignalActivityIndex at once
Propagates(ai) == ai.kind = "raise"

\* ---- inputs -------------------------------------------------------------
\* a sample at rest, one moving along x only, one moving along y and z
SampleSet == {<<0, 0, 0>>, <<MaxVal, 0, 0>>, <<0, MaxVal, MaxVal>>}

\* signals to score, and reference signals recorded at rest (length >= 1)
Signals == UNION {[1..n -> SampleSet] : n \in 0..MaxLen}

RefSignals == UNION {[1..n -> SampleSet] : n \in 1..MaxRef}

NoiseSet == {Num(q) : q \in 0..MaxNoise} \cup {NaN}

Modes == {"paper", "bai", "author"}

\* ---- state --------------------------------------------------------------
VARIABLES fn, df, mode, noise, freq, rel, errstate,
          pc, nchunks, i, ai_signal, avg, calls, ret

vars == <<fn, df, mode, noise, freq, rel, errstate,
          pc, nchunks, i, ai_signal, avg, calls, ret>>

args == <<fn, df, mode, noise, freq, rel, errstate>>

Init ==
  /\ fn \in {"getNoiseValue", "getActivityIndex", "getSignalActivityIndex"}
  /\ df \in IF fn = "getNoiseValue" THEN RefSignals ELSE Signals
  /\ fn = "getActivityIndex" => Len(df) >= 1
  /\ mode \in Modes
  /\ fn # "getNoiseValue" => mode = "author"
  /\ noise \in NoiseSet
  /\ rel \in BOOLEAN
  /\ errstate \in ErrStates
  /\ fn = "getNoiseValue" => noise = Zero /\ rel = FALSE
  /\ errstate = "raise" => rel /\ noise = Zero
  /\ freq \in 1..MaxFreq
  /\ fn # "getSignalActivityIndex" => freq = 1
  /\ pc = "call"
  /\ nchunks = 0
  /\ i = 0
  /\ ai_signal = Unbound
  /\ avg = Unbound
  /\ calls = <<>>
  /\ ret = NoResult

NoiseCall ==
  /\ fn = "getNoiseValue"
  /\ pc = "call"
  /\ ret' = getNoiseValue(df, mode)
  /\ pc' = "done"
  /\ UNCHANGED <<args, nchunks, i, ai_signal, avg, calls>>

WindowCall ==
  /\ fn = "getActivityIndex"
  /\ pc = "call"
  /\ LET f == ActivityIndexFrame(df, noise, rel, errstate)
     IN /\ ret' = f.out
        /\ avg' = f.avg
  /\ pc' = "done"
  /\ UNCHANGED <<args, nchunks, i, ai_signal, calls>>

\* nchunks = len(df) // freq; ai_signal = 0
SignalEnter ==
  /\ fn = "getSignalActivityIndex"
  /\ pc = "call"
  /\ nchunks' = WindowCount(Len(df), freq)
  /\ ai_signal' = Zero
  /\ i' = 0
  /\ pc' = "loop"
  /\ UNCHANGED <<args, avg, calls, ret>>

\* one pass of: for i in range(nchunks)
SignalLoop ==
  /\ fn = "getSignalActivityIndex"
  /\ pc = "loop"
  /\ i < nchunks
  /\ LET start == i * freq
         end == i * freq + freq
         f == ActivityIndexFrame(Iloc(df, start, end), noise, rel, errstate)
         ai == f.out
     IN /\ calls' = Append(calls, [start |-> start, end |-> end,
                                   window |-> Iloc(df, start, end),
                                   out |-> ai])
        /\ avg' = f.avg
        /\ IF Propagates(ai)
           THEN /\ ret' = ai
                /\ pc' = "done"
                /\ UNCHANGED <<i, ai_signal>>
           ELSE /\ ai_signal' = FAdd(ai_signal, ai.val)
                /\ i' = i + 1
                /\ UNCHANGED <<pc, ret>>
  /\ UNCHANGED <<args, nchunks>>

\* return (ai_signal, len(df)//freq)
SignalReturn ==
  /\ fn = "getSignalActivityIndex"
  /\ pc = "loop"
  /\ i >= nchunks
  /\ ret' = Return(ai_signal, WindowCount(Len(df), freq))
  /\ pc' = "done"
  /\ UNCHANGED <<args, nchunks, i, ai_signal, avg, calls>>

Next == NoiseCall \/ WindowCall \/ SignalEnter \/ SignalLoop \/ SignalReturn

Spec == Init /\ [][Next]_vars

\* ---- properties ---------------------------------------------------------
Done == pc = "done"

Returned == Done /\ ret.kind = "return"

FLe(a, b) == a.k # "nan" /\ b.k # "nan" /\ ~FGt(a, b)

\* the window the aggregator is to score as its k-th (k from 0): the freq
\* samples at indices k*freq .. k*freq+freq-1
SpecSlice(k) == [j \in 1..freq |-> df[k * freq + j]]

\* the scores of the first k such windows, added in order starting from 0
RECURSIVE SumScores(_)
SumScores(k) ==
  IF k = 0 THEN Zero
  ELSE FAdd(SumScores(k - 1),
            getActivityIndex(SpecSlice(k - 1), noise, rel, errstate).val)

\* r is the square root of a as a float gives it: nan and inf pass through,
\* otherwise r > 0 and the real root lies within r*(1 -+ 2^-MantBits)
IsSqrtOf(r, a) ==
  CASE a.k = "nan" -> r.k = "nan"
    [] a.k = "inf" -> r.k = "inf"
    [] a.k = "ninf" -> FALSE
    [] OTHER ->
         /\ r.k = "fin"
         /\ r.n > 0
         /\ r.n * r.n * (TwoP - 1) * (TwoP - 1) * a.d
              <= a.n * r.d * r.d * TwoP * TwoP
         /\ a.n * r.d * r.d * TwoP * TwoP
              <= r.n * r.n * (TwoP + 1) * (TwoP + 1) * a.d

\* C1: scoring with relative = true and noise = 0 always ends in an
\* invalid-division failure, for a single window and for a signal with at
\* least one full window; no value is returned.
C1_RelativeZeroNoiseFails ==
  (/\ Done
   /\ rel
   /\ noise = Zero
   /\ \/ fn = "getActivityIndex"
      \/ fn = "getSignalActivityIndex" /\ nchunks >= 1)
    => ret.kind = "raise"

C3_WindowCountIsFloor ==
  (fn = "getSignalActivityIndex" /\ Returned)
    => /\ ret.count * freq <= Len(df)
       /\ Len(df) < (ret.count + 1) * freq
       /\ ret.count = Len(calls)

C3_Witness ==
  /\ fn = "getSignalActivityIndex"
  /\ Returned
  /\ Len(df) % freq # 0
  /\ ret.count >= 1
  /\ Len(calls) = ret.count

\* C4: a signal shorter than freq gives (0, 0) whatever the noise and the
\* relative flag: no window is scored, nothing is raised.
C4_ShortSignalIsZeroZero ==
  (fn = "getSignalActivityIndex" /\ Done /\ Len(df) < freq)
    => ret = Return(Zero, 0) /\ calls = <<>>

C4_Witness ==
  /\ fn = "getSignalActivityIndex"
  /\ Done
  /\ Len(df) < freq
  /\ Len(df) >= 1
  /\ noise = Zero
  /\ rel
  /\ errstate = "raise"
  /\ ret = Return(Zero, 0)

\* C5: a value returned by getActivityIndex, and the total returned by
\* getSignalActivityIndex, is >= 0.
C5_ScoreNonNegative ==
  (fn \in {"getActivityIndex", "getSignalActivityIndex"} /\ Returned)
    => FLe(Zero, ret.val)

C7_NoSilentNaN ==
  Done => (ret.kind = "raise" \/ (ret.kind = "return" /\ ret.val.k = "fin"))

\* C8: the total returned is the sum, in order, of the scores of the slices
\* [i*freq, i*freq+freq) for i in 0..count-1, each scored with the call's
\* noise and relative flag; the scored slices are exactly these, of freq
\* samples each, not overlapping, and none reaches index count*freq.
C8_TotalIsSumOfWindowScores ==
  (fn = "getSignalActivityIndex" /\ Returned)
    => /\ Len(calls) = ret.count
       /\ \A k \in 1..Len(calls) :
            /\ calls[k].start = (k - 1) * freq
            /\ Len(calls[k].window) = freq
            /\ calls[k].window = SpecSlice(k - 1)
            /\ calls[k].end <= ret.count * freq
            /\ k < Len(calls) => calls[k].end <= calls[k + 1].start
       /\ ret.val = SumScores(ret.count)

C8_Witness ==
  /\ fn = "getSignalActivityIndex"
  /\ Returned
  /\ ret.count >= 2
  /\ Len(df) > ret.count * freq
  /\ ret.val.k = "fin"
  /\ ret.val.n > 0
  /\ calls[1].window # calls[2].window

\* noise 2, window variances (1,1,1), not relative: avg = -1, result 0
ScenarioBelowNoise ==
  Score(Num(1), Num(1), Num(1), Num(2), FALSE, "warn")
    = [avg |-> Num(-1), out |-> Return(Zero, 0)]

\* noise 2, window variances (8,8,8), not relative: avg = 6, result sqrt(6)
ScenarioAboveNoise ==
  /\ Score(Num(8), Num(8), Num(8), Num(2), FALSE, "warn").avg = Num(6)
  /\ IsSqrtOf(Score(Num(8), Num(8), Num(8), Num(2), FALSE, "warn").out.val,
              Num(6))

\* C9: getActivityIndex returns exactly 0 when the average of the three
\* deviations is <= 0 and the square root of the average otherwise; noise 2
\* with variances (1,1,1), not relative, gives 0, with (8,8,8) sqrt(6).
C9_ClampThenSqrt ==
  /\ (fn = "getActivityIndex" /\ Done /\ avg # Unbound)
       => IF FLe(avg, Zero) THEN ret = Return(Zero, 0)
          ELSE ret.kind = "return" /\ IsSqrtOf(ret.val, avg)
  /\ ScenarioBelowNoise
  /\ ScenarioAboveNoise

C9_Witness ==
  /\ fn = "getActivityIndex"
  /\ Done
  /\ avg.k = "fin"
  /\ avg.n < 0
  /\ ret = Return(Zero, 0)

\* C10: when scoring a window fails inside getSignalActivityIndex, that
\* call is the last one made, the loop has not advanced, no window is
\* scored twice, and the failure, not a (total, count) pair, is the outcome.
C10_FailurePropagatesAtOnce ==
  fn = "getSignalActivityIndex"
    => /\ \A k \in 1..Len(calls) :
            calls[k].out.kind = "raise"
              => /\ k = Len(calls)
                 /\ Done
                 /\ ret = calls[k].out
                 /\ i = k - 1
       /\ \A j, k \in 1..Len(calls) : j # k => calls[j].start # calls[k].start
       /\ ret.kind = "raise" => Done /\ Len(calls) = i + 1

C10_Witness ==
  /\ fn = "getSignalActivityIndex"
  /\ Done
  /\ ret.kind = "raise"
  /\ nchunks >= 2
  /\ Len(calls) = 1

====
